---- MODULE Spec2Model ----
(***************************************************************************)
(* Model of repo2docker's build orchestration (repo2docker/app.py):        *)
(* Repo2Docker.initialize, Repo2Docker.start, Repo2Docker.fetch,           *)
(* Repo2Docker.push_image, Repo2Docker.run_image and compose, one action   *)
(* per statement group or loop iteration.  The version-control client, the     *)
(* build strategies and the container engine are the environment: their    *)
(* results are drawn nondeterministically from small sets.                 *)
(***************************************************************************)
EXTENDS Integers, Sequences, FiniteSets, TLC

(* ---------------------------- bounds ----------------------------------- *)
\* longest catalog (self.buildpacks) the configuration file leaves: the
\* first entries of the default list
MaxCatalog == 2
\* most records a build generator delivers
MaxBuildRecords == 2
\* most records a push stream delivers
MaxPushRecords == 2
\* layer ids that occur in push records
MaxLayers == 1
\* longest chain of mixins handed to compose()
MaxChain == 3

(* ------------------------ program constants ---------------------------- *)
\* the clock unit is half a second; 1.5 seconds are three units
EmitInterval == 3
\* exit code of sys.exit(1)
ExitFailure == 1
\* exit code of an interpreter that dies of an uncaught exception
ExitUncaught == 1
\* exit code docker reports for a container that was killed (SIGKILL)
ExitKilled == 137
\* exit code docker reports in State.ExitCode while a container runs
ExitWhileRunning == 0

\* exit_code before the process has terminated
NoExit == -1
\* bp before the first iteration of the catalog loop binds it
Unbound == -1

\* the default value of the buildpacks trait, in declared order
DefaultBuildpacks ==
    << <<"LegacyBinderDockerBuildPack">>,
       <<"DockerBuildPack">>,
       <<"BaseImage", "CondaBuildPack", "JuliaBuildPack">>,
       <<"BaseImage", "CondaBuildPack">>,
       <<"BaseImage", "PythonBuildPack", "Python2BuildPack", "JuliaBuildPack">>,
       <<"BaseImage", "PythonBuildPack", "JuliaBuildPack">>,
       <<"BaseImage", "PythonBuildPack", "Python2BuildPack">>,
       <<"BaseImage", "PythonBuildPack">> >>

\* the default value of the default_buildpack trait
default_buildpack == <<"BaseImage", "PythonBuildPack">>

\* the layer ids of push records
Layers == 1..MaxLayers
\* the snapshot before any record has arrived
NoLayers == [id \in Layers |-> "absent"]
\* a push record: whether it has an error field, its id (0: none), its
\* progressDetail ("absent", "empty", "detail") and its status ("absent",
\* "status"); fields the loop does not read are left absent
Record(err, id, detail, st) == [err |-> err, id |-> id, detail |-> detail, st |-> st]
\* progress before the loop has read a record
NoRecord == Record(FALSE, 0, "absent", "absent")
\* time that may pass between two readings of the clock
Delays == {2, 4}
\* time that may pass while one report is written to the log
LogDelays == {1}
\* the exit codes a container may end with on its own
ExitCodes == {0, 3}
\* the ports the system may hand out as free
FreePorts == {8888, 8889}

\* fields a build record may carry
BuildFields == {"stream", "error", "status"}
\* the records a build generator can yield: any set of fields
BuildRecords == SUBSET BuildFields

VARIABLES
    pc,                \* position of the single thread of control
    exit_code,         \* exit status of the process, NoExit while it runs
    exc,               \* the uncaught exception that ended the process, or "none"
    repo_type,         \* self.repo_type
    cleanup_checkout,  \* self.cleanup_checkout
    build,             \* self.build
    push,              \* self.push
    run,               \* self.run
    run_cmd,           \* TRUE iff self.run_cmd is a non-empty command
    buildpacks,        \* self.buildpacks, the catalog
    checkout,          \* the checkout directory: "absent", "present", "removed"
    contained,         \* result of _contains(ref): "unknown", "yes", "no"
    detects,           \* detects[i]: what detect() of catalog entry i returns
    i,                 \* index of the catalog entry the loop is at
    detectCalls,       \* the catalog entries detect() was called on, in order
    bp,                \* the loop variable bp (index of its catalog entry)
    picked_buildpack,  \* index of the picked entry, 0 for the default
    trace,             \* the steps and stages performed so far, in order
    buildRemaining,    \* records the build generator may still deliver
    buildConsumed,     \* number of build records the running build loop has consumed
    buildErrAt,        \* index of the first consumed record with an error field
    now,               \* time.time() at its latest reading, in units of half a second
    layers,            \* push_image's snapshot: layer id -> "absent", "detail", "status"
    last_emit_time,    \* push_image's last_emit_time
    pushRemaining,     \* records the push stream may still deliver
    pushConsumed,      \* number of push records the running push loop has consumed
    pushErrAt,         \* index of the first consumed push record with an error field
    emitCount,         \* number of snapshots push_image has emitted
    emitAt,            \* the instant of the latest emission
    emitted,           \* the snapshot the current round emitted, if it did
    progress,          \* the record of the current round of the push loop
    allocated,         \* the ports _get_free_port has handed out, in order
    command,           \* the port the container's command binds, 0 if none
    ports,             \* the port published to the host, 0 if none
    container,         \* the engine's container: "none", "created", "running", "exited", "removed"
    containerExit,     \* the engine's State.ExitCode of the container
    ownExit,           \* the code the container exited with on its own, or NoExit
    status,            \* container.status as of the last reload
    attrsExit,         \* container.attrs['State']['ExitCode'] as of the last reload
    logsEnd,           \* how the log stream ended: "none", "normal", "error"
    apiFailed,         \* the engine call that failed: "none", "poll", "reload", "kill"
    cpc,               \* where a call of compose() is: "idle", "call", "loop", "returned"
    chain,             \* compose's argument buildpacks, a sequence of mixin classes
    parent,            \* compose's argument parent
    image,             \* compose's local image
    folded,            \* how many elements of the chain are part of image
    created            \* the instances compose has created, in order

vars == << pc, exit_code, exc, repo_type, cleanup_checkout, build, push, run,
           run_cmd, buildpacks, checkout, contained, detects, i, detectCalls, bp,
           picked_buildpack, trace, buildRemaining, buildConsumed, buildErrAt,
           now, layers, last_emit_time, pushRemaining, pushConsumed, pushErrAt,
           emitCount, emitAt, emitted, progress, allocated, command, ports, container,
           containerExit, ownExit, status, attrsExit, logsEnd, apiFailed,
           cpc, chain, parent, image, folded, created >>

composeVars == << cpc, chain, parent, image, folded, created >>
initVars == << repo_type, cleanup_checkout, build, push, run, run_cmd, buildpacks >>
fetchVars == << checkout, contained >>
selectVars == << detects, i, detectCalls, bp, picked_buildpack >>
buildVars == << buildRemaining, buildConsumed, buildErrAt >>
pushVars == << now, layers, last_emit_time, pushRemaining, pushConsumed,
               pushErrAt, emitCount, emitAt, emitted, progress >>
runVars == << allocated, command, ports, container, containerExit, ownExit,
              status, attrsExit, logsEnd, apiFailed >>

(* ----------------------------------------------------------------------- *)
\* sys.exit(code): the process terminates with the given status
SysExit(code) ==
    /\ pc' = "done"
    /\ exit_code' = code
    /\ exc' = "none"

\* an exception nobody catches: the interpreter prints it and exits with 1
Raise(e) ==
    /\ pc' = "done"
    /\ exit_code' = ExitUncaught
    /\ exc' = e

\* control moves on inside the program
Goto(p) ==
    /\ pc' = p
    /\ UNCHANGED << exit_code, exc >>

\* the pipeline before initialize()
PipelineInit ==
    /\ pc = "initialize"
    /\ exit_code = NoExit
    /\ exc = "none"
    /\ repo_type = "unset"
    /\ cleanup_checkout = FALSE
    /\ build = FALSE
    /\ push = FALSE
    /\ run = FALSE
    /\ run_cmd = FALSE
    /\ buildpacks = DefaultBuildpacks
    /\ checkout = "absent"
    /\ contained = "unknown"
    /\ detects = << >>
    /\ i = 0
    /\ detectCalls = << >>
    /\ bp = Unbound
    /\ picked_buildpack = 0
    /\ trace = << >>
    /\ buildRemaining = 0
    /\ buildConsumed = 0
    /\ buildErrAt = 0
    /\ now = 0
    /\ layers = NoLayers
    /\ last_emit_time = 0
    /\ pushRemaining = 0
    /\ pushConsumed = 0
    /\ pushErrAt = 0
    /\ emitCount = 0
    /\ emitAt = 0
    /\ emitted = NoLayers
    /\ progress = NoRecord
    /\ allocated = << >>
    /\ command = 0
    /\ ports = 0
    /\ container = "none"
    /\ containerExit = NoExit
    /\ ownExit = NoExit
    /\ status = "none"
    /\ attrsExit = NoExit
    /\ logsEnd = "none"
    /\ apiFailed = "none"

\* the value of image before line 41 has bound it
NoImage == [cls |-> "none", parent |-> "none"]

\* no call of compose() is being followed
ComposeIdle ==
    /\ cpc = "idle"
    /\ chain = << >>
    /\ parent = "None"
    /\ image = NoImage
    /\ folded = 0
    /\ created = << >>

Init == PipelineInit /\ ComposeIdle

\* a cleanup flag that forgets that local repositories are not ours
CleanupFlagAnySource(isLocal, clean) == clean

\* self.cleanup_checkout as initialize() sets it
CleanupFlag(isLocal, clean) == IF isLocal THEN FALSE ELSE clean

\* an initialize() that leaves the flags as the arguments gave them
StageFlagKept(argBuild, arg) == arg

\* lines 280-288: self.push and self.run as initialize() sets them: the
\* argument, forced to False when nothing is built
StageFlag(argBuild, arg) == IF ~argBuild THEN FALSE ELSE arg

\* initialize(): parse the arguments, load the configuration
Initialize ==
    /\ pc = "initialize"
    /\ \E isLocal \in BOOLEAN, clean \in BOOLEAN, argBuild \in BOOLEAN,
          argPush \in BOOLEAN, argRun \in BOOLEAN, cmd \in BOOLEAN,
          n \in 0..MaxCatalog :
          /\ repo_type' = IF isLocal THEN "local" ELSE "remote"
          /\ cleanup_checkout' = CleanupFlag(isLocal, clean)
          /\ build' = argBuild
          /\ push' = StageFlag(argBuild, argPush)
          /\ run' = StageFlag(argBuild, argRun)
          /\ run_cmd' = cmd
          /\ buildpacks' = SubSeq(DefaultBuildpacks, 1, n)
          /\ checkout' = IF isLocal THEN "present" ELSE "absent"
    /\ Goto("start")
    /\ UNCHANGED << composeVars, contained, selectVars, trace, buildVars,
                    pushVars, runVars >>

(* ------------------------------ fetch ---------------------------------- *)
\* start(), lines 357-365: a local repository is used where it is, a remote
\* one is fetched into a fresh directory under git_workdir
Start ==
    /\ pc = "start"
    /\ Goto(IF repo_type = "local" THEN "chdir" ELSE "clone")
    /\ UNCHANGED << composeVars, initVars, fetchVars, selectVars, trace, buildVars, pushVars, runVars >>

\* _clone(depth=50)
Clone ==
    /\ pc = "clone"
    /\ trace' = Append(trace, "clone")
    /\ \E ok \in BOOLEAN :
          IF ok
          THEN /\ checkout' = "present"
               /\ Goto("contains")
          ELSE /\ UNCHANGED checkout
               /\ Raise("RuntimeError")
    /\ UNCHANGED << composeVars, initVars, contained, selectVars, buildVars, pushVars, runVars >>

\* a fetch that pays for the full history whatever the probe answers
AfterContainsAlways(found) == "unshallow"

\* the step fetch() takes after the probe _contains(ref) has answered
AfterContains(found) == IF found THEN "checkout" ELSE "unshallow"

\* if not _contains(ref): the probe git cat-file -t ref
Contains ==
    /\ pc = "contains"
    /\ trace' = Append(trace, "contains")
    /\ \E found \in BOOLEAN :
          /\ contained' = IF found THEN "yes" ELSE "no"
          /\ Goto(AfterContains(found))
    /\ UNCHANGED << composeVars, initVars, checkout, selectVars, buildVars, pushVars, runVars >>

\* _unshallow()
Unshallow ==
    /\ pc = "unshallow"
    /\ trace' = Append(trace, "unshallow")
    /\ \E ok \in BOOLEAN :
          IF ok THEN Goto("checkout") ELSE Raise("RuntimeError")
    /\ UNCHANGED << composeVars, initVars, fetchVars, selectVars, buildVars, pushVars, runVars >>

\* _checkout(ref): git reset --hard ref
Checkout ==
    /\ pc = "checkout"
    /\ trace' = Append(trace, "checkout")
    /\ \E ok \in BOOLEAN :
          IF ok THEN Goto("chdir") ELSE Raise("RuntimeError")
    /\ UNCHANGED << composeVars, initVars, fetchVars, selectVars, buildVars, pushVars, runVars >>

(* ---------------------------- selection -------------------------------- *)
\* all assignments of detect() results to a catalog of n entries
DetectResults(n) == [1..n -> BOOLEAN]

\* lines 367-370: enter the working tree, whose contents fix what every
\* detect() answers; compose the default; the loop starts at the first entry
Chdir ==
    /\ pc = "chdir"
    /\ trace' = Append(trace, "select")
    /\ detects' \in DetectResults(Len(buildpacks))
    /\ picked_buildpack' = 0
    /\ i' = 1
    /\ Goto(IF Len(buildpacks) = 0 THEN "render" ELSE "detect")
    /\ UNCHANGED << composeVars, initVars, fetchVars, detectCalls, bp, buildVars, pushVars, runVars >>

\* a catalog loop without its break
BreaksNever(d) == FALSE

\* whether the catalog loop leaves (break) after detect() answered d
Breaks(d) == d

\* one iteration of the catalog loop, lines 370-374
Detect ==
    /\ pc = "detect"
    /\ i <= Len(buildpacks)
    /\ bp' = i
    /\ detectCalls' = Append(detectCalls, i)
    /\ picked_buildpack' = IF detects[i] THEN i ELSE picked_buildpack
    /\ IF Breaks(detects[i]) \/ i = Len(buildpacks)
       THEN /\ Goto("render")
            /\ UNCHANGED i
       ELSE /\ Goto("detect")
            /\ i' = i + 1
    /\ UNCHANGED << composeVars, initVars, fetchVars, detects, trace, buildVars, pushVars, runVars >>

(* ------------------------------ build ---------------------------------- *)
\* a start() that removes the checkout only after push and run
StartOrderCleanupLast == << "build", "push", "run", "cleanup", "return" >>

\* the statements of start() after the selection, in program order
\* (lines 378-398): build, remove the checkout, push, run, return
StartOrder == << "build", "cleanup", "push", "run", "return" >>

\* the statement that follows statement s in start()
After(s) ==
    LET k == CHOOSE j \in 1..Len(StartOrder) : StartOrder[j] = s
    IN  StartOrder[k + 1]

\* line 376: self.log.debug(picked_buildpack.render())
Render ==
    /\ pc = "render"
    /\ Goto("build")
    /\ UNCHANGED << composeVars, initVars, fetchVars, selectVars, trace, buildVars, pushVars, runVars >>

\* lines 378-380: if self.build, name the builder and call build(); the
\* name is read from the loop variable bp, which no iteration has bound
\* when the catalog is empty
BuildGate ==
    /\ pc = "build"
    /\ IF ~build
       THEN /\ Goto(After("build"))
            /\ UNCHANGED << trace, buildRemaining >>
       ELSE IF bp = Unbound
       THEN /\ Raise("NameError")
            /\ UNCHANGED << trace, buildRemaining >>
       ELSE /\ trace' = Append(trace, "build")
            /\ buildRemaining' = MaxBuildRecords
            /\ Goto("building")
    /\ UNCHANGED << composeVars, initVars, fetchVars, selectVars, buildConsumed, buildErrAt,
                   pushVars, runVars >>

\* the branch of lines 381-389 that record l takes
Classify(l) ==
    IF "stream" \in l THEN "stream"
    ELSE IF "error" \in l THEN "error"
    ELSE IF "status" \in l THEN "status"
    ELSE "other"

\* one iteration of the build loop, lines 380-389
BuildRecord ==
    /\ pc = "building"
    /\ buildRemaining > 0
    /\ \E l \in BuildRecords :
          /\ buildRemaining' = buildRemaining - 1
          /\ buildConsumed' = buildConsumed + 1
          /\ buildErrAt' = IF buildErrAt = 0 /\ "error" \in l
                           THEN buildConsumed + 1 ELSE buildErrAt
          /\ IF Classify(l) = "error"
             THEN SysExit(ExitFailure)
             ELSE Goto("building")
    /\ UNCHANGED << composeVars, initVars, fetchVars, selectVars, trace, pushVars, runVars >>

\* the build generator is exhausted: the loop ends and its place in the
\* stream goes out of scope
BuildEnd ==
    /\ pc = "building"
    /\ buildRemaining' = 0
    /\ buildConsumed' = 0
    /\ Goto(After("build"))
    /\ UNCHANGED << composeVars, initVars, fetchVars, selectVars, trace, buildErrAt,
                    pushVars, runVars >>

(* ----------------------------- cleanup --------------------------------- *)
\* lines 391-392: shutil.rmtree(checkout_path) if self.cleanup_checkout
Cleanup ==
    /\ pc = "cleanup"
    /\ IF cleanup_checkout
       THEN /\ checkout' = "removed"
            /\ trace' = Append(trace, "rmtree")
       ELSE UNCHANGED << checkout, trace >>
    /\ Goto(After("cleanup"))
    /\ UNCHANGED << composeVars, initVars, contained, selectVars, buildVars, pushVars, runVars >>

(* ------------------------------- push ---------------------------------- *)
\* lines 394-297: if self.push, push_image() starts with an empty snapshot
\* and reads the clock
PushGate ==
    /\ pc = "push"
    /\ IF ~push
       THEN /\ Goto(After("push"))
            /\ UNCHANGED << trace, pushVars >>
       ELSE /\ trace' = Append(trace, "push")
            /\ layers' = NoLayers
            /\ last_emit_time' = now
            /\ pushRemaining' = MaxPushRecords
            /\ Goto("pushing")
            /\ UNCHANGED << now, pushConsumed, pushErrAt, emitCount, emitAt, emitted, progress >>
    /\ UNCHANGED << composeVars, initVars, fetchVars, selectVars, buildVars, runVars >>

\* a snapshot that prefers the status string to the progress detail
LayerValueStatusFirst(detail, st) == IF st # "absent" THEN st ELSE detail

\* lines 305-308: the value a record stores for its layer: the progress
\* detail when it is present and non-empty, else progress['status']
LayerValue(detail, st) == IF detail = "detail" THEN "detail" ELSE st

\* line 309: the throttle
ShouldEmit(t, last) == t - last > EmitInterval

\* an emission that forgets to reset last_emit_time
EmitTimeStale(t, last) == last

\* line 311: last_emit_time after an emission whose time.time() returns t
EmitTime(t, last) == t

\* a loop that takes an error for fatal only in a record that names no layer
PushFatalAfterId(err, id) == err /\ id = 0

\* lines 300-302: whether a record is fatal; the error field is looked at
\* before the id
PushFatal(err, id) == err

\* one iteration of the push loop, lines 298-311.  The clock is read at
\* line 309, d1 after its previous reading, and the report is issued at
\* that instant; db passes while it is written, before line 311 reads the
\* clock again.  A round that ends before line 309 reads no clock
PushRecord ==
    /\ pc = "pushing"
    /\ pushRemaining > 0
    /\ pushRemaining' = pushRemaining - 1
    /\ pushConsumed' = pushConsumed + 1
    /\ \E err \in BOOLEAN, id \in 0..MaxLayers :
          /\ pushErrAt' = IF pushErrAt = 0 /\ err
                          THEN pushConsumed + 1 ELSE pushErrAt
          /\ IF PushFatal(err, id)
             THEN /\ progress' = Record(err, id, "absent", "absent")
                  /\ emitted' = NoLayers
                  /\ SysExit(ExitFailure)
                  /\ UNCHANGED << now, layers, last_emit_time, emitCount, emitAt >>
             ELSE IF id = 0
             THEN /\ progress' = Record(err, id, "absent", "absent")
                  /\ emitted' = NoLayers
                  /\ Goto("pushing")
                  /\ UNCHANGED << now, layers, last_emit_time, emitCount, emitAt >>
             ELSE \E detail \in {"absent", "empty", "detail"},
                     st \in {"absent", "status"} :
                  /\ progress' = Record(err, id, detail, st)
                  /\ IF LayerValue(detail, st) = "absent"
                     THEN /\ emitted' = NoLayers
                          /\ Raise("KeyError")
                          /\ UNCHANGED << now, layers, last_emit_time, emitCount, emitAt >>
                     ELSE \E d1 \in Delays :
                          /\ layers' = [layers EXCEPT ![id] = LayerValue(detail, st)]
                          /\ Goto("pushing")
                          /\ IF ShouldEmit(now + d1, last_emit_time)
                             THEN \E db \in LogDelays :
                                     /\ emitCount' = emitCount + 1
                                     /\ emitAt' = now + d1
                                     /\ emitted' = layers'
                                     /\ now' = now + d1 + db
                                     /\ last_emit_time' = EmitTime(now', last_emit_time)
                             ELSE /\ now' = now + d1
                                  /\ emitted' = NoLayers
                                  /\ UNCHANGED << last_emit_time, emitCount, emitAt >>
    /\ UNCHANGED << composeVars, initVars, fetchVars, selectVars, trace, buildVars, runVars >>

\* the push stream is exhausted: push_image() returns; its locals, its
\* place in the stream and the record of its reports go out of scope, and
\* the clock is not read again
PushEnd ==
    /\ pc = "pushing"
    /\ pushRemaining' = 0
    /\ now' = 0
    /\ layers' = NoLayers
    /\ last_emit_time' = 0
    /\ emitCount' = 0
    /\ emitAt' = 0
    /\ emitted' = NoLayers
    /\ progress' = NoRecord
    /\ pushConsumed' = 0
    /\ Goto(After("push"))
    /\ UNCHANGED << composeVars, initVars, fetchVars, selectVars, trace, buildVars,
                    pushErrAt, runVars >>

(* -------------------------------- run ---------------------------------- *)
\* lines 397, 314-328: if self.run, run_image() allocates its ports and
\* launches the container detached; the object it gets is 'created'
RunGate ==
    /\ pc = "run"
    /\ IF ~run
       THEN /\ Goto(After("run"))
            /\ UNCHANGED << trace, runVars >>
       ELSE /\ trace' = Append(trace, "run")
            /\ \E p1 \in FreePorts, p2 \in FreePorts :
                  IF ~run_cmd
                  THEN /\ allocated' = << p1, p2 >>
                       /\ command' = p2
                       /\ ports' = p2
                  ELSE /\ allocated' = << p1 >>
                       /\ command' = 0
                       /\ ports' = 0
            /\ container' = "created"
            /\ containerExit' = ExitWhileRunning
            /\ status' = "created"
            /\ attrsExit' = ExitWhileRunning
            /\ Goto("poll")
            /\ UNCHANGED << ownExit, logsEnd, apiFailed >>
    /\ UNCHANGED << composeVars, initVars, fetchVars, selectVars, buildVars, pushVars >>

\* the engine starts the container
ContainerStarts ==
    /\ pc # "done"
    /\ container = "created"
    /\ container' = "running"
    /\ UNCHANGED << composeVars, pc, exit_code, exc, initVars, fetchVars,
                    selectVars, trace,
                    buildVars, pushVars, allocated, command, ports,
                    containerExit, ownExit, status, attrsExit, logsEnd, apiFailed >>

\* the container's process ends on its own with code c
ContainerExits ==
    /\ pc # "done"
    /\ container = "running"
    /\ \E c \in ExitCodes :
          /\ container' = "exited"
          /\ containerExit' = c
          /\ ownExit' = c
    /\ UNCHANGED << composeVars, pc, exit_code, exc, initVars, fetchVars,
                    selectVars, trace,
                    buildVars, pushVars, allocated, command, ports,
                    status, attrsExit, logsEnd, apiFailed >>

\* container.reload() that succeeds: the attributes are read afresh
Reload ==
    /\ status' = container
    /\ attrsExit' = containerExit

\* lines 329-331: one round of the poll loop while the status is 'created'
Poll ==
    /\ pc = "poll"
    /\ status = "created"
    /\ \E ok \in BOOLEAN :
          IF ok
          THEN /\ Reload
               /\ Goto("poll")
               /\ UNCHANGED apiFailed
          ELSE /\ apiFailed' = "poll"
               /\ Raise("APIError")
               /\ UNCHANGED << status, attrsExit >>
    /\ UNCHANGED << composeVars, initVars, fetchVars, selectVars, trace, buildVars, pushVars,
                    allocated, command, ports, container, containerExit,
                    ownExit, logsEnd >>

\* a log relay without the try ... finally around it
AfterLogsUnguarded(how) == IF how = "error" THEN "raise" ELSE "finally"

\* where control goes when the log stream has ended in the way how
\* (lines 333-337: try ... finally)
AfterLogs(how) == "finally"

\* lines 333-335: the log stream is relayed until it ends or raises
Logs ==
    /\ pc = "poll"
    /\ status # "created"
    /\ trace' = Append(trace, "logs")
    /\ \E how \in {"normal", "error"} :
          /\ logsEnd' = how
          /\ IF AfterLogs(how) = "finally"
             THEN Goto("finally")
             ELSE Raise("StreamError")
    /\ UNCHANGED << composeVars, initVars, fetchVars, selectVars, buildVars, pushVars,
                    allocated, command, ports, container, containerExit,
                    ownExit, status, attrsExit, apiFailed >>

\* a teardown that kills whatever the status says
KillNeededAlways(st) == TRUE

\* line 338: whether the re-read status st calls for a kill
KillNeeded(st) == st = "running"

\* lines 337-338: the status is read again, and decides about the kill
Finally ==
    /\ pc = "finally"
    /\ trace' = Append(trace, "reread")
    /\ \E ok \in BOOLEAN :
          IF ok
          THEN /\ Reload
               /\ Goto(IF KillNeeded(status') THEN "kill" ELSE "remove")
               /\ UNCHANGED apiFailed
          ELSE /\ apiFailed' = "reload"
               /\ Raise("APIError")
               /\ UNCHANGED << status, attrsExit >>
    /\ UNCHANGED << composeVars, initVars, fetchVars, selectVars, buildVars, pushVars,
                    allocated, command, ports, container, containerExit,
                    ownExit, logsEnd >>

\* lines 339-340: container.kill(); the engine refuses it when the
\* container is no longer running
Kill ==
    /\ pc = "kill"
    /\ trace' = Append(trace, "kill")
    /\ \E ok \in BOOLEAN :
          IF ok /\ container = "running"
          THEN /\ container' = "exited"
               /\ containerExit' = ExitKilled
               /\ Goto("remove")
               /\ UNCHANGED apiFailed
          ELSE /\ apiFailed' = "kill"
               /\ Raise("APIError")
               /\ UNCHANGED << container, containerExit >>
    /\ UNCHANGED << composeVars, initVars, fetchVars, selectVars, buildVars, pushVars,
                    allocated, command, ports, ownExit, status, attrsExit, logsEnd >>

\* a run_image() that reports the code a running container shows
ReportedExitZero == ExitWhileRunning

\* line 341: the exit code run_image() reports, read from the attributes
\* of the last reload
ReportedExit == attrsExit

\* lines 341-343: read the exit code, remove the container, exit with it
Remove ==
    /\ pc = "remove"
    /\ container' = "removed"
    /\ trace' = Append(trace, "remove")
    /\ SysExit(ReportedExit)
    /\ UNCHANGED << composeVars, initVars, fetchVars, selectVars, buildVars, pushVars,
                    allocated, command, ports, containerExit, ownExit, status,
                    attrsExit, logsEnd, apiFailed >>

\* start() returns: the process ends with status 0
Return ==
    /\ pc = "return"
    /\ SysExit(0)
    /\ UNCHANGED << composeVars, initVars, fetchVars, selectVars, trace, buildVars, pushVars, runVars >>

Next ==
    \/ Initialize
    \/ Start
    \/ Clone
    \/ Contains
    \/ Unshallow
    \/ Checkout
    \/ Chdir
    \/ Detect
    \/ Render
    \/ BuildGate
    \/ BuildRecord
    \/ BuildEnd
    \/ Cleanup
    \/ PushGate
    \/ PushRecord
    \/ PushEnd
    \/ RunGate
    \/ ContainerStarts
    \/ ContainerExits
    \/ Poll
    \/ Logs
    \/ Finally
    \/ Kill
    \/ Remove
    \/ Return

Spec == Init /\ [][Next]_vars

(* ------------------------------ compose -------------------------------- *)
\* the mixin classes a chain is made of
Mixins == {"BaseImage", "CondaBuildPack", "PythonBuildPack"}
\* the values of parent: the default None, and the application (parent=self)
Parents == {"None", "self"}
\* the non-empty chains of at most MaxChain mixins
Chains == UNION {[1..len -> Mixins] : len \in 1..MaxChain}

\* lines 41, 43: buildpack(parent=parent), a new instance of a mixin class
\* bound to parent
Instance(cls, p) == [cls |-> cls, parent |-> p]

\* base.compose_with(other): base extended with other, which comes after
\* everything base is made of and may override it
ComposeWith(base, other) == [base |-> base, with |-> other]

\* a fold that extends the new instance with what was composed before
FoldedUnder(img, inst) == ComposeWith(inst, img)

\* line 43: the value assigned to image in one round of the loop
Folded(img, inst) == ComposeWith(img, inst)

\* lines 42-43 as a function: the rounds of the loop over rest
RECURSIVE ComposeLoop(_, _, _)
ComposeLoop(img, rest, p) ==
    IF rest = << >> THEN img
    ELSE ComposeLoop(Folded(img, Instance(Head(rest), p)), Tail(rest), p)

\* lines 37-44 as a function of a non-empty chain
compose(b, p) == ComposeLoop(Instance(b[1], p), Tail(b), p)

\* compose() is called with a non-empty chain
ComposeInit ==
    /\ PipelineInit
    /\ cpc = "call"
    /\ chain \in Chains
    /\ parent \in Parents
    /\ image = NoImage
    /\ folded = 0
    /\ created = << >>

pipelineVars == << pc, exit_code, exc, initVars, fetchVars, selectVars, trace,
                   buildVars, pushVars, runVars >>

\* line 41: image = buildpacks[0](parent=parent)
ComposeFirst ==
    /\ cpc = "call"
    /\ image' = Instance(chain[1], parent)
    /\ created' = << Instance(chain[1], parent) >>
    /\ folded' = 1
    /\ cpc' = "loop"
    /\ UNCHANGED << chain, parent, pipelineVars >>

\* lines 42-43: one round of the loop over buildpacks[1:]
ComposeStep ==
    /\ cpc = "loop"
    /\ folded < Len(chain)
    /\ image' = Folded(image, Instance(chain[folded + 1], parent))
    /\ created' = Append(created, Instance(chain[folded + 1], parent))
    /\ folded' = folded + 1
    /\ UNCHANGED << cpc, chain, parent, pipelineVars >>

\* line 44: return image, when the loop is through
ComposeReturn ==
    /\ cpc = "loop"
    /\ folded = Len(chain)
    /\ cpc' = "returned"
    /\ UNCHANGED << chain, parent, image, folded, created, pipelineVars >>

ComposeNext ==
    \/ ComposeFirst
    \/ ComposeStep
    \/ ComposeReturn

ComposeSpec == ComposeInit /\ [][ComposeNext]_vars

(* ======================= properties of the pipeline ==================== *)
\* event e has happened
Happened(e) == \E k \in DOMAIN trace : trace[k] = e

\* the selection loop of start() is over
SelectionDone == Happened("select") /\ pc # "detect"

\* the first catalog entry, in declared order, whose detect() returns true;
\* 0, the default, when there is none
FirstMatch ==
    IF \E j \in DOMAIN detects : detects[j]
    THEN CHOOSE j \in DOMAIN detects :
            detects[j] /\ \A m \in 1..(j - 1) : ~detects[m]
    ELSE 0

\* C1: once the selection is over, the picked strategy is the first catalog
\* entry in declared order whose detect() returns true, and it is the
\* default exactly when no entry's detect() returns true; the pick is a
\* function of the catalog and the detect() results
C1_FirstMatchSelected ==
    SelectionDone =>
        /\ picked_buildpack = FirstMatch
        /\ (picked_buildpack = 0) <=> (\A j \in DOMAIN detects : ~detects[j])

\* two entries detect, and the first one was picked
C1_Witness ==
    /\ SelectionDone
    /\ Len(buildpacks) = 2
    /\ detects[1] /\ detects[2]
    /\ picked_buildpack = 1

\* C2: the first build record that carries an error field, whatever else it
\* carries, halts the build stage: it is the last record consumed and the
\* process has terminated with exit code 1
C2_ErrorRecordHalts ==
    buildErrAt # 0 =>
        /\ buildConsumed = buildErrAt
        /\ pc = "done"
        /\ exit_code = ExitFailure

C5_NoStageAfterFailure ==
    /\ exc = "RuntimeError" =>
          ~(Happened("select") \/ Happened("build") \/ Happened("push") \/ Happened("run"))
    /\ buildErrAt # 0 => ~(Happened("push") \/ Happened("run"))
    /\ pushErrAt # 0 => ~Happened("run")

\* C6 as stated: once the checkout has been removed, no push or run stage
\* begins
C6_RemovalAfterAllStages ==
    \A k \in DOMAIN trace :
        trace[k] = "rmtree" =>
            \A j \in DOMAIN trace : j > k => trace[j] \notin {"push", "run"}

\* C6 as the code has it: the checkout is removed after the fetch, the
\* selection and the build stage are over and before the push and run
\* stages begin
C6_RemovalAfterBuildBeforePush ==
    \A k \in DOMAIN trace :
        trace[k] = "rmtree" =>
            /\ pc \notin {"detect", "render", "build", "building"}
            /\ \A j \in DOMAIN trace :
                  /\ trace[j] \in {"clone", "contains", "unshallow", "checkout",
                                   "select", "build"} => j < k
                  /\ trace[j] \in {"push", "run"} => j > k

\* a build, then the removal, then a push
C6_Witness ==
    \E k \in DOMAIN trace, j \in DOMAIN trace, m \in DOMAIN trace :
        /\ trace[k] = "build" /\ trace[j] = "rmtree" /\ trace[m] = "push"
        /\ k < j /\ j < m

\* C7: the checkout is removed at most once, and never when the source is
\* a local directory
C7_CheckoutOwnership ==
    /\ Cardinality({k \in DOMAIN trace : trace[k] = "rmtree"}) <= 1
    /\ repo_type = "local" => (~Happened("rmtree") /\ checkout = "present")

\* a local source went through build, cleanup and push, and is still there
C7_Witness ==
    /\ repo_type = "local"
    /\ Happened("build") /\ Happened("push")
    /\ pc = "done"
    /\ checkout = "present"

\* the git steps fetch() has performed, in order
FetchSteps ==
    SelectSeq(trace, LAMBDA e : e \in {"clone", "contains", "unshallow", "checkout"})

\* s is an initial segment of t
IsPrefix(s, t) == Len(s) <= Len(t) /\ SubSeq(t, 1, Len(s)) = s

\* the steps of a whole fetch, given what the probe answers
FullFetch(answer) ==
    IF answer = "yes" THEN << "clone", "contains", "checkout" >>
    ELSE << "clone", "contains", "unshallow", "checkout" >>

\* C8: fetch() performs clone, probe, then the unshallow step never when
\* the probe finds the revision and once when it does not, then the hard
\* reset as the last step
C8_UnshallowOnlyWhenAbsent ==
    /\ contained = "unknown" => IsPrefix(FetchSteps, << "clone" >>)
    /\ contained # "unknown" =>
          /\ IsPrefix(FetchSteps, FullFetch(contained))
          /\ Len(FetchSteps) >= 2
    /\ (repo_type = "remote" /\ Happened("select")) =>
          FetchSteps = FullFetch(contained)

\* the probe did not find the revision and the fetch went through
C8_Witness ==
    /\ contained = "no"
    /\ FetchSteps = << "clone", "contains", "unshallow", "checkout" >>
    /\ Happened("select")

C10_PushErrorFatal ==
    [][pushErrAt' # 0 =>
          /\ pc' = "done"
          /\ exit_code' = ExitFailure
          /\ exc' = "none"
          /\ pushConsumed' = pushErrAt'
          /\ pushErrAt = 0 =>
                (layers' = layers /\ emitCount' = emitCount /\ emitAt' = emitAt)]_vars

\* the first record was an error, one more record was never consumed
C10_Witness ==
    /\ pushErrAt = 1
    /\ pushConsumed = 1
    /\ pushRemaining = 1
    /\ pc = "done"
    /\ exit_code = ExitFailure

\* a fetch step failed: the process ended before the selection began
FetchFailed == pc = "done" /\ ~Happened("select")

\* initialize() has run and nothing is to be built
NoBuild == pc # "initialize" /\ ~build

\* with build=false no build() is called, no record consumed, no push
\* started and no container launched
NoStageRan ==
    /\ ~Happened("build") /\ ~Happened("push") /\ ~Happened("run")
    /\ buildConsumed = 0 /\ pushConsumed = 0
    /\ container = "none"

\* C11 as stated: with build=false none of build, publish and run is
\* executed, and the invocation ends with exit code 0
C11_NoBuildNoStagesExitZero ==
    NoBuild => (NoStageRan /\ (pc = "done" => exit_code = 0))

\* C11 as the code has it: with build=false none of build, publish and run
\* is executed, and the invocation ends with exit code 0 unless a fetch
\* step failed, in which case it ends with the status of an uncaught error
C11_NoBuildNoStages ==
    NoBuild =>
        /\ NoStageRan
        /\ pc = "done" =>
              exit_code = (IF FetchFailed THEN ExitUncaught ELSE 0)

\* a remote source was fetched, nothing was built, the process ended with 0
C11_Witness ==
    /\ NoBuild
    /\ repo_type = "remote"
    /\ Happened("select")
    /\ pc = "done"
    /\ exit_code = 0

\* the catalog entries 1..n in declared order
UpTo(n) == [k \in 1..n |-> k]

\* C12: detect() is called on the catalog entries in declared order, each
\* at most once, and once the selection is over it has been called exactly
\* on the entries up to and including the first match (on all of them when
\* none matches) and on no later entry
C12_ShortCircuit ==
    /\ detectCalls = UpTo(Len(detectCalls))
    /\ SelectionDone =>
          detectCalls = UpTo(IF FirstMatch = 0 THEN Len(buildpacks) ELSE FirstMatch)

\* the first of two entries matched and the second was never asked
C12_Witness ==
    /\ SelectionDone
    /\ Len(buildpacks) = 2
    /\ detects[1]
    /\ detectCalls = << 1 >>

\* C13: once the container has been launched it is removed before the
\* process terminates, however the run stage exits, also when a status
\* poll, the status re-read or the kill fails
C13_RemovedHoweverRunExits ==
    (pc = "done" /\ Happened("run")) => container = "removed"

\* the container was killed by the runner and removed
KilledAndRemoved ==
    /\ pc = "done"
    /\ Happened("kill")
    /\ apiFailed = "none"
    /\ container = "removed"

\* C14: on the kill path the process terminates with the container's
\* terminal exit code, the one it has once it has been killed
C14_KillPathExitCode ==
    KilledAndRemoved => exit_code = containerExit

\* the steps of the supervision that follow the poll loop, in order
RunSteps ==
    SelectSeq(trace, LAMBDA e : e \in {"logs", "reread", "kill", "remove"})

\* C15: the logs are streamed only after a poll has seen a status other
\* than created; after the stream has ended the status is re-read exactly
\* once; a kill is issued if and only if the re-read status is running;
\* kill comes before remove, and remove comes with the termination
C15_SupervisionOrder ==
    /\ \/ IsPrefix(RunSteps, << "logs", "reread", "kill", "remove" >>)
       \/ IsPrefix(RunSteps, << "logs", "reread", "remove" >>)
    /\ Happened("logs") => status \notin {"none", "created"}
    /\ pc \in {"kill", "remove"} => Happened("reread")
    /\ (Happened("reread") /\ apiFailed # "reload") =>
          ((status = "running") <=> (pc = "kill" \/ Happened("kill")))
    /\ Happened("remove") => (pc = "done" /\ container = "removed")

\* the stream ended, the status was re-read as running, the container was
\* killed and then removed
C15_Witness ==
    /\ RunSteps = << "logs", "reread", "kill", "remove" >>
    /\ status = "running"
    /\ pc = "done"

\* C16: without an explicit command exactly one port p is allocated, the
\* command binds p and p/tcp is published to host port p; with an explicit
\* command no port is allocated and none is published
C16_OnePortOrNone ==
    Happened("run") =>
        IF ~run_cmd
        THEN /\ Len(allocated) = 1
             /\ command = allocated[1]
             /\ ports = allocated[1]
        ELSE /\ allocated = << >>
             /\ command = 0
             /\ ports = 0

\* the push loop has read one more record in this step
ReadsPushRecord == pushConsumed' = pushConsumed + 1

C19_ReportedBuilderIsSelected ==
    /\ exc # "NameError"
    /\ Happened("build") => bp = picked_buildpack

\* C20: for a remote source with cleanup enabled the checkout is removed
\* exactly when the fetch succeeded and the build stage ended without an
\* error record (a skipped build stage included); after a fetch failure or
\* a build error record the process ends with the checkout left on disk,
\* and a later failure of push or run does not bring it back
C20_RemovedIffFetchedAndBuilt ==
    (pc = "done" /\ repo_type = "remote" /\ cleanup_checkout) =>
        /\ checkout = "removed" <=> (~FetchFailed /\ buildErrAt = 0)
        /\ checkout = "removed" <=> Happened("rmtree")

(* ======================== properties of compose ======================== *)
\* the left-to-right fold of the first len mixins of the chain:
\* ((m1 extended with m2) extended with m3) ... extended with m_len
RECURSIVE FoldLeft(_)
FoldLeft(len) ==
    IF len = 1 THEN Instance(chain[1], parent)
    ELSE ComposeWith(FoldLeft(len - 1), Instance(chain[len], parent))

\* the chain without its last mixin
Shorter == SubSeq(chain, 1, Len(chain) - 1)

\* C18: compose() of a non-empty chain returns the left-to-right fold of
\* the chain: every mixin is instantiated exactly once, bound to the one
\* parent, in the declared order; a chain of one mixin yields the bare
\* instance of that mixin; and the result for a longer chain is compose()
\* of the chain without its last mixin, extended with an instance of the
\* last, which differs from compose() of the shorter chain
C18_ComposeIsLeftFold ==
    /\ cpc \in {"loop", "returned"} =>
          /\ folded \in 1..Len(chain)
          /\ image = FoldLeft(folded)
          /\ created = [j \in 1..folded |-> Instance(chain[j], parent)]
    /\ cpc = "returned" =>
          /\ folded = Len(chain)
          /\ image = compose(chain, parent)
          /\ Len(chain) = 1 => image = Instance(chain[1], parent)
          /\ Len(chain) > 1 =>
                /\ image = ComposeWith(compose(Shorter, parent),
                                       Instance(chain[Len(chain)], parent))
                /\ image # compose(Shorter, parent)

\* compose() has returned for a chain of three different mixins
C18_Witness ==
    /\ cpc = "returned"
    /\ Len(chain) = 3
    /\ Cardinality({chain[j] : j \in 1..3}) = 3
    /\ parent = "self"

====
